---- MODULE Spec2Model ----
(***************************************************************************)
(* A model of printpost.py: the Config Store (two JSON documents), the     *)
(* PrintFormatter string functions, and the Printer's print_receipt /      *)
(* print_test_receipt paths over the serial and USB transports.            *)
(*                                                                         *)
(* A Python str is a sequence of code points, a bytes object a sequence of *)
(* integers 0..255.  A float is modelled for the dyadic values k/4, for    *)
(* which Python's arithmetic and str() are exact.                          *)
(*                                                                         *)
(* Five specifications: Spec (the store, the host's USB devices and the    *)
(* print calls, step by step), FmtSpec (the formatter applied to drawn     *)
(* inputs), StoreSpec (the store alone, with the history of its saves),    *)
(* PairSpec (one receipt down the serial and the USB path) and CliSpec     *)
(* (the config command of the command line, the host and the print calls). *)
(***************************************************************************)
EXTENDS Integers, Sequences, FiniteSets, TLC

VARIABLES
    \* PrintFormatter calls (pure functions): the last call and its result
    fmtCall, fmtOut,
    \* Config Store: the two persisted documents
    deviceDoc, typeDoc,
    \* history of the store: the argument of the last successful save of each
    \* document, and the last store operation with its return value
    savedConfig, savedType, storeOp,
    \* the host: the USB devices currently connected, in enumeration order
    usbBus,
    \* one print call: position, arguments, locals, transport, log, result
    pc, entry, lines, logoUrl, isBuzzer, printerConfig, printerType,
    devices, device, handle, lineIdx, feeds, logoOutcome, writes, result,
    \* one receipt sent down both transports: the arguments and the transport's
    \* behaviour, and the run of _print_to_serial and of _print_to_usb on them
    job, serialRun, usbRun

fmtVars   == <<fmtCall, fmtOut>>
storeVars == <<deviceDoc, typeDoc>>
histVars  == <<savedConfig, savedType, storeOp>>
callVars  == <<pc, entry, lines, logoUrl, isBuzzer, printerConfig, printerType,
               devices, device, handle, lineIdx, feeds, logoOutcome, writes, result>>
pairVars  == <<job, serialRun, usbRun>>
vars      == <<fmtVars, storeVars, histVars, usbBus, callVars, pairVars>>

(***************************************************************************)
(* Text.                                                                   *)
(***************************************************************************)
\* runs of consecutive ASCII characters, each with the code of its first one
AsciiRuns ==
    << <<32, " !">>, <<42, "*">>, <<44, ",-./0123456789:">>,
       <<65, "ABCDEFGHIJKLMNOPQRSTUVWXYZ">>,
       <<97, "abcdefghijklmnopqrstuvwxyz">> >>

\* the code point of a one-character literal
Ord(c) ==
    LET hit(r, i) == SubSeq(AsciiRuns[r][2], i, i) = c
        r == CHOOSE r \in 1..Len(AsciiRuns) : \E i \in 1..Len(AsciiRuns[r][2]) : hit(r, i)
        i == CHOOSE i \in 1..Len(AsciiRuns[r][2]) : hit(r, i)
    IN  AsciiRuns[r][1] + i - 1

\* a Python str literal as its sequence of code points
Str(s) == [i \in 1..Len(s) |-> Ord(SubSeq(s, i, i))]

SPACE == 32
Spaces(n) == [i \in 1..n |-> SPACE]
Repeat(ch, n) == [i \in 1..n |-> ch]

Max(a, b) == IF a >= b THEN a ELSE b

RECURSIVE Flatten(_)
Flatten(ss) == IF ss = <<>> THEN <<>> ELSE Head(ss) \o Flatten(Tail(ss))

\* str(n) of a non-negative int
RECURSIVE IntStr(_)
IntStr(n) == IF n < 10 THEN <<48 + n>> ELSE IntStr(n \div 10) \o <<48 + (n % 10)>>

\* str(x) of the non-negative float x = q/4: Python prints the shortest
\* decimal that round-trips, which for these values is the exact one
FloatStr(q) ==
    IntStr(q \div 4) \o <<46>> \o
    CASE q % 4 = 0 -> <<48>>
      [] q % 4 = 1 -> <<50, 53>>
      [] q % 4 = 2 -> <<53>>
      [] q % 4 = 3 -> <<55, 53>>

(***************************************************************************)
(* PrinterConfig.COMMANDS                                                  *)
(***************************************************************************)
COMMANDS ==
    [ bold_on   |-> <<27, 69, 1>>,
      bold_off  |-> <<27, 69, 0>>,
      large_on  |-> <<27, 33, 16>>,
      large_off |-> <<27, 33, 0>>,
      buzzer    |-> <<27, 66, 5, 7>>,
      cut       |-> <<29, 86, 0>>,
      line_feed |-> <<10>> ]

DefaultWidth      == 45
DefaultHolderLen  == 44
DefaultNameWidth  == 15
DefaultQtyWidth   == 4
DefaultPriceWidth == 7
DefaultTotalWidth == 10

(***************************************************************************)
(* PrintFormatter                                                          *)
(***************************************************************************)
\* bytes.decode(): UTF-8, for one- and two-byte sequences
RECURSIVE Decode(_)
Decode(bytes) ==
    IF bytes = <<>> THEN <<>>
    ELSE IF bytes[1] < 128 THEN <<bytes[1]>> \o Decode(Tail(bytes))
    ELSE <<(bytes[1] - 192) * 64 + (bytes[2] - 128)>> \o Decode(Tail(Tail(bytes)))

bold(text)  == Decode(COMMANDS.bold_on) \o text \o Decode(COMMANDS.bold_off)
large(text) == Decode(COMMANDS.large_on) \o text \o Decode(COMMANDS.large_off)

\* str.ljust / str.rjust / str.center with the default fill character
ljust(text, width) ==
    IF Len(text) >= width THEN text ELSE text \o Spaces(width - Len(text))

rjust(text, width) ==
    IF Len(text) >= width THEN text ELSE Spaces(width - Len(text)) \o text

\* CPython: left = marg/2 + (marg & width & 1), right = marg - left
pycenter(text, width) ==
    IF Len(text) >= width THEN text
    ELSE LET marg == width - Len(text)
             left == (marg \div 2) + (IF marg % 2 = 1 /\ width % 2 = 1 THEN 1 ELSE 0)
         IN  Spaces(left) \o text \o Spaces(marg - left)

center(text, width) == pycenter(text, width)

\* variant: the padding goes before the text
left_align_padleft(text, width) == rjust(text, width)
left_align(text, width) == ljust(text, width)

right_align(text, width) == rjust(text, width)

holder_line(ch, length) == Repeat(ch, length)

\* variant: the name is cut to its width
format_receipt_item_truncating(name, qty, priceQ, w) ==
    LET cut(s, n) == SubSeq(s, 1, IF Len(s) < n THEN Len(s) ELSE n)
    IN  ljust(cut(name, w[1]), w[1]) \o ljust(IntStr(qty), w[2])
          \o ljust(FloatStr(priceQ), w[3]) \o rjust(FloatStr(qty * priceQ), w[4])
\* w = <<name_width, qty_width, price_width, total_width>>; the price is priceQ/4
format_receipt_item(name, qty, priceQ, w) ==
    LET extended_price == qty * priceQ
    IN  ljust(name, w[1]) \o ljust(IntStr(qty), w[2])
          \o ljust(FloatStr(priceQ), w[3]) \o rjust(FloatStr(extended_price), w[4])

DefaultWidths == <<DefaultNameWidth, DefaultQtyWidth, DefaultPriceWidth, DefaultTotalWidth>>

(***************************************************************************)
(* The formatter's inputs.                                                 *)
(***************************************************************************)
MaxTextLen == 3
MaxWidth   == 5
MaxQty     == 3
MaxPriceQ  == 10

\* a space, a letter and a control character (ESC)
FmtAlphabet == {SPACE, 97, 27}
Texts  == UNION { [1..n -> FmtAlphabet] : n \in 0..MaxTextLen }
Widths == -1..MaxWidth
Names  == Texts \cup {Str("Widget"), Str("Extra Large Pizza")}
NarrowWidths == <<2, 1, 3, 4>>
WidthChoices == {DefaultWidths, NarrowWidths}

NoFmtCall == [op |-> "none", text |-> <<>>, width |-> 0, qty |-> 0, priceQ |-> 0,
              w |-> DefaultWidths]

FmtInit == fmtCall = NoFmtCall /\ fmtOut = <<>>

otherVars == <<deviceDoc, typeDoc, savedConfig, savedType, storeOp, usbBus,
               pc, entry, lines, logoUrl, isBuzzer, printerConfig, printerType,
               devices, device, handle, lineIdx, feeds, logoOutcome, writes, result,
               job, serialRun, usbRun>>

CallCenter ==
    /\ fmtCall.op = "none"
    /\ \E t \in Texts, wd \in Widths :
         /\ fmtCall' = [NoFmtCall EXCEPT !.op = "center", !.text = t, !.width = wd]
         /\ fmtOut' = center(t, wd)
    /\ UNCHANGED otherVars

CallLeftAlign ==
    /\ fmtCall.op = "none"
    /\ \E t \in Texts, wd \in Widths :
         /\ fmtCall' = [NoFmtCall EXCEPT !.op = "left_align", !.text = t, !.width = wd]
         /\ fmtOut' = left_align(t, wd)
    /\ UNCHANGED otherVars

CallRightAlign ==
    /\ fmtCall.op = "none"
    /\ \E t \in Texts, wd \in Widths :
         /\ fmtCall' = [NoFmtCall EXCEPT !.op = "right_align", !.text = t, !.width = wd]
         /\ fmtOut' = right_align(t, wd)
    /\ UNCHANGED otherVars

CallFormatReceiptItem ==
    /\ fmtCall.op = "none"
    /\ \E n \in Names, q \in 0..MaxQty, p \in 0..MaxPriceQ, w \in WidthChoices :
         /\ fmtCall' = [op |-> "format_receipt_item", text |-> n, width |-> 0,
                        qty |-> q, priceQ |-> p, w |-> w]
         /\ fmtOut' = format_receipt_item(n, q, p, w)
    /\ UNCHANGED otherVars

\* the caller takes the string
FmtReturn ==
    /\ fmtCall.op # "none"
    /\ fmtCall' = NoFmtCall /\ fmtOut' = <<>>
    /\ UNCHANGED otherVars

(***************************************************************************)
(* Config Store: PrinterManager.save_* / load_*                            *)
(***************************************************************************)
\* JSON values: null, or a string
JNull   == [t |-> "null", s |-> <<>>]
JStr(s) == [t |-> "str", s |-> s]
\* Python truthiness of a loaded value: None and "" are falsy
Falsy(v) == v.t = "null" \/ v.s = <<>>

\* a document on disk: absent, unreadable (not a JSON object), or {key: val}
Absent  == [st |-> "absent",  key |-> "", val |-> JNull]
Corrupt == [st |-> "corrupt", key |-> "", val |-> JNull]
Json(k, v) == [st |-> "json", key |-> k, val |-> v]

USB    == Str("usb")
SERIAL == Str("serial")

\* what open(filename, "w") followed by json.dump and the close can do
SaveOutcomes == {"ok", "open_fails", "write_fails"}

\* the document after a save: open(.., "w") truncates it before anything is
\* written, so a failure past the open leaves no readable document
SaveDoc(doc, k, v, outcome) ==
    CASE outcome = "ok"          -> Json(k, v)
      [] outcome = "open_fails"  -> doc
      [] outcome = "write_fails" -> Corrupt

SaveReturns(outcome) == outcome = "ok"

save_printer_config(doc, printer_config, outcome) ==
    SaveDoc(doc, "printer", printer_config, outcome)

save_printer_type(doc, printer_type, outcome) ==
    SaveDoc(doc, "type_printer", printer_type, outcome)

\* dict.get(key, default) on the loaded document
Get(doc, k, default) == IF doc.key = k THEN doc.val ELSE default

\* variant: an unreadable document yields a default port
load_printer_config_defaulting(doc) ==
    CASE doc.st = "absent"  -> JNull
      [] doc.st = "corrupt" -> JStr(Str("/dev/ttyUSB0"))
      [] doc.st = "json"    -> Get(doc, "printer", JNull)
load_printer_config(doc) ==
    CASE doc.st = "absent"  -> JNull
      [] doc.st = "corrupt" -> JNull
      [] doc.st = "json"    -> Get(doc, "printer", JNull)

load_printer_type(doc) ==
    CASE doc.st = "absent"  -> JStr(USB)
      [] doc.st = "corrupt" -> JStr(USB)
      [] doc.st = "json"    -> Get(doc, "type_printer", JStr(USB))

(***************************************************************************)
(* The host: USB devices and serial ports.                                 *)
(***************************************************************************)
\* the devices that can be connected: two printers of the same make
UsbDevice ==
    [ printerA |-> [bus |-> 1, address |-> 2, manufacturer |-> Str("ACME"),
                    product |-> Str("POS")],
      printerB |-> [bus |-> 1, address |-> 3, manufacturer |-> Str("ACME"),
                    product |-> Str("POS")] ]
UsbNames == DOMAIN UsbDevice

\* the serial ports of the host
PortA == Str("/dev/ttyUSB0")
SerialPorts == {PortA}

MaxUsb == 2

\* format(n, "03d")
Pad3(n) == LET d == IntStr(n) IN Repeat(48, 3 - Len(d)) \o d

\* the description get_usb_devices computes for the i-th enumerated device
Description(i, name) ==
    LET dev == UsbDevice[name]
    IN  IntStr(i) \o Str(". ") \o Pad3(dev.bus) \o Str("-") \o Pad3(dev.address)
          \o Str(": ") \o dev.manufacturer \o Str(" ") \o dev.product

\* get_usb_devices over the enumeration `bus`; reading a device's strings can
\* raise, which ends the loop: `upto` devices were described before that
get_usb_devices(bus, upto) ==
    [i \in 1..upto |-> [index |-> i, name |-> bus[i], description |-> Description(i, bus[i])]]

\* str.startswith(tuple('123456789'))
StartsWithDigit(s) == s # <<>> /\ s[1] \in 49..57

\* str.encode('utf-8'); lone surrogates raise UnicodeEncodeError
Encodable(s) == \A i \in 1..Len(s) : s[i] \notin 55296..57343
EncodeChar(c) ==
    CASE c < 128   -> <<c>>
      [] c < 2048  -> <<192 + (c \div 64), 128 + (c % 64)>>
      [] c < 65536 -> <<224 + (c \div 4096), 128 + ((c \div 64) % 64), 128 + (c % 64)>>
      [] OTHER     -> <<240 + (c \div 262144), 128 + ((c \div 4096) % 64),
                        128 + ((c \div 64) % 64), 128 + (c % 64)>>
Encode(s) == Flatten([i \in 1..Len(s) |-> EncodeChar(s[i])])

(***************************************************************************)
(* Printer.print_test_receipt: the canned receipt.                         *)
(***************************************************************************)
\* prices in quarters: 10.00, 20.00, 5.00
test_items ==
    << [name |-> Str("Item 1"), qty |-> 2, priceQ |-> 40],
       [name |-> Str("Item 2"), qty |-> 1, priceQ |-> 80],
       [name |-> Str("Item 3"), qty |-> 3, priceQ |-> 20] >>

RECURSIVE SumExtended(_)
SumExtended(items) ==
    IF items = <<>> THEN 0
    ELSE Head(items).qty * Head(items).priceQ + SumExtended(Tail(items))

\* sum(item['qty'] * item['price'] for item in test_items), in quarters
test_total == SumExtended(test_items)

DASH == 45

TestReceiptLines ==
    LET hl == pycenter(holder_line(DASH, DefaultHolderLen), DefaultWidth)
    IN  << hl,
           pycenter(bold(Str("Your Company Name")), DefaultWidth),
           pycenter(Str("123 Main St, City"), DefaultWidth),
           pycenter(Str("Phone: 123-456-7890"), DefaultWidth),
           pycenter(bold(Str("Date: 2023-12-31")), DefaultWidth),
           hl,
           pycenter(Str("Item          Qty  Price     Ext Price"), DefaultWidth),
           hl >>
        \o [i \in 1..Len(test_items) |->
              pycenter(format_receipt_item(test_items[i].name, test_items[i].qty,
                                           test_items[i].priceQ, DefaultWidths),
                       DefaultWidth)]
        \o << hl,
               pycenter(ljust(Str("Total"), 10) \o rjust(FloatStr(test_total), 8),
                        DefaultWidth),
               hl,
               pycenter(Str("Thank you for your business!"), DefaultWidth),
               hl >>

(***************************************************************************)
(* Printer.print_receipt: one call, step by step.                          *)
(***************************************************************************)
MaxLines == 2
FeedLines == 5

\* the lines a caller can pass: "a", "e-acute" (two bytes in UTF-8), and a
\* lone surrogate, which str.encode refuses
LineTexts == {Str("a"), <<233>>, <<55296>>}
LineLists == UNION { [1..n -> LineTexts] : n \in 0..MaxLines }

\* what _print_image_from_url can meet; none of them writes to the transport
LogoOutcomes == {"requests_unavailable", "pillow_unavailable", "network_error",
                 "status_not_200", "undecodable", "loaded"}

\* the identifiers a caller can persist
IdChoices ==
    {JNull, JStr(<<>>), JStr(PortA)}
      \cup {JStr(Description(i, n)) : i \in 1..MaxUsb, n \in UsbNames}
TypeChoices == {JStr(USB), JStr(SERIAL)}

CallInit ==
    /\ pc = "idle" /\ entry = "none" /\ lines = <<>> /\ logoUrl = "none"
    /\ isBuzzer = FALSE /\ printerConfig = JNull /\ printerType = JStr(USB)
    /\ devices = <<>> /\ device = "none" /\ handle = "none" /\ lineIdx = 1
    /\ feeds = 0 /\ logoOutcome = "none" /\ writes = <<>> /\ result = "none"

argVars   == <<entry, lines, logoUrl, isBuzzer, printerConfig, printerType>>
progVars  == <<lineIdx, feeds, logoOutcome>>
envVars   == <<fmtVars, storeVars, histVars, usbBus, pairVars>>

\* the except clauses of _print_to_usb/_print_to_serial/print_receipt, and the
\* early returns: the call returns False from where it is
ReturnFalse == pc' = "returned" /\ result' = "False"

\* print_receipt up to the dispatch on the transport kind
BeginPrint(e, ls, logo, buz) ==
    LET printer_config == load_printer_config(deviceDoc)
        printer_type   == load_printer_type(typeDoc)
    IN  /\ pc = "idle"
        /\ entry' = e /\ lines' = ls /\ logoUrl' = logo /\ isBuzzer' = buz
        /\ printerConfig' = printer_config
        /\ printerType' = printer_type
        /\ IF Falsy(printer_config)
             THEN ReturnFalse
             ELSE /\ result' = "none"
                  /\ pc' = IF printer_type = JStr(SERIAL) THEN "serial_open"
                                                          ELSE "usb_resolve"
        /\ UNCHANGED <<devices, device, handle, progVars, writes, envVars>>

PrintReceipt ==
    /\ pc = "idle"
    /\ \E ls \in LineLists, logo \in {"none", "url"}, buz \in BOOLEAN :
         BeginPrint("print_receipt", ls, logo, buz)

\* variant: the buzzer is not asked for
PrintTestReceipt_quiet ==
    /\ ~Falsy(load_printer_config(deviceDoc))
    /\ BeginPrint("print_test_receipt", TestReceiptLines, "none", FALSE)
\* print_test_receipt: its own check of the configuration, the canned lines,
\* then print_receipt(receipt_lines, is_buzzer=True)
PrintTestReceipt ==
    IF Falsy(load_printer_config(deviceDoc))
    THEN /\ pc = "idle"
         /\ entry' = "print_test_receipt"
         /\ printerConfig' = load_printer_config(deviceDoc)
         /\ printerType' = load_printer_type(typeDoc)
         /\ ReturnFalse
         /\ UNCHANGED <<lines, logoUrl, isBuzzer, devices, device, handle, progVars,
                        writes, envVars>>
    ELSE BeginPrint("print_test_receipt", TestReceiptLines, "none", TRUE)

\* _print_to_serial up to the open port
SerialOpen ==
    /\ pc = "serial_open"
    /\ \E SERIAL_AVAILABLE \in BOOLEAN, opens \in BOOLEAN :
         IF SERIAL_AVAILABLE /\ opens /\ printerConfig.s \in SerialPorts
         THEN /\ handle' = "open" /\ device' = "serial" /\ pc' = "logo"
              /\ UNCHANGED result
         ELSE ReturnFalse /\ UNCHANGED <<handle, device>>
    /\ UNCHANGED <<argVars, devices, progVars, writes, envVars>>

\* _print_to_usb: the first enumeration
UsbResolve ==
    /\ pc = "usb_resolve"
    /\ \E USB_AVAILABLE \in BOOLEAN, upto \in 0..Len(usbBus) :
         IF USB_AVAILABLE /\ StartsWithDigit(printerConfig.s)
         THEN /\ devices' = get_usb_devices(usbBus, upto)
              /\ pc' = "usb_lookup"
              /\ UNCHANGED result
         ELSE \* no pyusb; or device = device_info, a str with no set_configuration
              ReturnFalse /\ UNCHANGED devices
    /\ UNCHANGED <<argVars, device, handle, progVars, writes, envVars>>

\* the index of the enumerated device whose description is the identifier, or 0
MatchIndex(devs, ident) ==
    IF \E i \in 1..Len(devs) : devs[i].description = ident
    THEN devs[CHOOSE i \in 1..Len(devs) : devs[i].description = ident].index
    ELSE 0

\* _print_to_usb: the match, and the second enumeration that yields the device
UsbLookup ==
    /\ pc = "usb_lookup"
    /\ LET index == MatchIndex(devices, printerConfig.s)
       IN  \E find_raises \in BOOLEAN :
             IF index = 0 \/ find_raises \/ index > Len(usbBus)
             THEN ReturnFalse /\ UNCHANGED device
             ELSE device' = usbBus[index] /\ pc' = "usb_configure" /\ UNCHANGED result
    /\ UNCHANGED <<argVars, devices, handle, progVars, writes, envVars>>

\* _print_to_usb: set_configuration, the interface and its OUT endpoint
UsbConfigure ==
    /\ pc = "usb_configure"
    /\ \E outcome \in {"ok", "no_out_endpoint", "set_configuration_raises",
                        "interface_raises"} :
         CASE outcome = "set_configuration_raises" ->
                ReturnFalse /\ UNCHANGED handle
           [] outcome = "interface_raises" ->
                ReturnFalse /\ handle' = "open"
           [] outcome = "no_out_endpoint" ->
                ReturnFalse /\ handle' = "open"
           [] outcome = "ok" ->
                handle' = "open" /\ pc' = "logo" /\ UNCHANGED result
    /\ UNCHANGED <<argVars, devices, device, progVars, writes, envVars>>

\* one call of write on the transport: it succeeds or raises
Attempt(data, ok) == writes' = Append(writes, [data |-> data, ok |-> ok, to |-> device])

\* _print_image_from_url: True when the image was fetched and decoded, False
\* otherwise; it writes nothing to output_device either way
print_image_from_url(outcome) == outcome = "loaded"

\* variant: a logo that cannot be loaded ends the call
PrintLogo_fatal ==
    /\ pc = "logo"
    /\ \E o \in LogoOutcomes :
         /\ logoOutcome' = IF logoUrl = "none" THEN "skipped"
                           ELSE IF print_image_from_url(o) THEN "True" ELSE "False"
         /\ IF logoUrl # "none" /\ ~print_image_from_url(o)
            THEN ReturnFalse
            ELSE pc' = (IF lines = <<>> THEN "feed" ELSE "lines") /\ UNCHANGED result
    /\ UNCHANGED <<argVars, devices, device, handle, lineIdx, feeds, writes, envVars>>
\* if logo_url: self._print_image_from_url(...), its return value ignored
PrintLogo ==
    /\ pc = "logo"
    /\ IF logoUrl = "none"
       THEN logoOutcome' = "skipped"
       ELSE \E o \in LogoOutcomes :
              logoOutcome' = IF print_image_from_url(o) THEN "True" ELSE "False"
    /\ pc' = IF lines = <<>> THEN "feed" ELSE "lines"
    /\ UNCHANGED <<argVars, devices, device, handle, lineIdx, feeds, writes, result, envVars>>

\* variant: a failed write of a line is tried again
WriteLine_retrying ==
    /\ pc = "lines"
    /\ Encodable(lines[lineIdx])
    /\ \E ok \in BOOLEAN :
         /\ Attempt(Encode(lines[lineIdx] \o <<10>>), ok)
         /\ lineIdx' = IF ok THEN lineIdx + 1 ELSE lineIdx
         /\ pc' = IF ok /\ lineIdx = Len(lines) THEN "feed" ELSE "lines"
    /\ UNCHANGED <<argVars, devices, device, handle, feeds, logoOutcome, result, envVars>>
\* for line in text_lines: write(f"{line}\n".encode('utf-8'))
WriteLine ==
    /\ pc = "lines"
    /\ LET text == lines[lineIdx] \o <<10>>
       IN  IF ~Encodable(text)
           THEN ReturnFalse /\ UNCHANGED <<writes, lineIdx>>
           ELSE \E ok \in BOOLEAN :
                  /\ Attempt(Encode(text), ok)
                  /\ IF ok
                     THEN /\ lineIdx' = lineIdx + 1
                          /\ pc' = IF lineIdx = Len(lines) THEN "feed" ELSE "lines"
                          /\ UNCHANGED result
                     ELSE ReturnFalse /\ UNCHANGED lineIdx
    /\ UNCHANGED <<argVars, devices, device, handle, feeds, logoOutcome, envVars>>

\* for _ in range(5): write(line_feed)
WriteFeed ==
    /\ pc = "feed"
    /\ \E ok \in BOOLEAN :
         /\ Attempt(COMMANDS.line_feed, ok)
         /\ IF ok
            THEN /\ feeds' = feeds + 1
                 /\ pc' = IF feeds + 1 = FeedLines THEN "cut" ELSE "feed"
                 /\ UNCHANGED result
            ELSE ReturnFalse /\ UNCHANGED feeds
    /\ UNCHANGED <<argVars, devices, device, handle, lineIdx, logoOutcome, envVars>>

\* a single write of a control sequence, then on to `next`
WriteCommand(at, data, next) ==
    /\ pc = at
    /\ \E ok \in BOOLEAN :
         /\ Attempt(data, ok)
         /\ IF ok THEN pc' = next /\ UNCHANGED result ELSE ReturnFalse
    /\ UNCHANGED <<argVars, devices, device, handle, progVars, envVars>>

WriteCut ==
    /\ pc = "cut"
    /\ WriteCommand("cut", COMMANDS.cut, "cut_feed")

\* variant: no line feed after the cut
WriteCutFeed_skipping ==
    /\ pc = "cut_feed"
    /\ pc' = IF isBuzzer THEN "buzzer" ELSE "release"
    /\ UNCHANGED <<argVars, devices, device, handle, progVars, writes, result, envVars>>
WriteCutFeed ==
    /\ pc = "cut_feed"
    /\ WriteCommand("cut_feed", COMMANDS.line_feed, IF isBuzzer THEN "buzzer" ELSE "release")

\* if is_buzzer: write(buzzer)
WriteBuzzer ==
    /\ pc = "buzzer"
    /\ WriteCommand("buzzer", COMMANDS.buzzer, "release")

\* ser.close() / usb.util.dispose_resources(device), then return True
Release ==
    /\ pc = "release"
    /\ \E ok \in BOOLEAN :
         IF ok THEN handle' = "released" /\ result' = "True" /\ pc' = "returned"
               ELSE handle' = "release_failed" /\ ReturnFalse
    /\ UNCHANGED <<argVars, devices, device, progVars, writes, envVars>>

\* the caller takes the result; the call's locals are gone
CallerContinues ==
    /\ pc = "returned"
    /\ pc' = "idle" /\ entry' = "none" /\ lines' = <<>> /\ logoUrl' = "none"
    /\ isBuzzer' = FALSE /\ printerConfig' = JNull /\ printerType' = JStr(USB)
    /\ devices' = <<>> /\ device' = "none" /\ handle' = "none" /\ lineIdx' = 1
    /\ feeds' = 0 /\ logoOutcome' = "none" /\ writes' = <<>> /\ result' = "none"
    /\ UNCHANGED envVars

(***************************************************************************)
(* The environment of a print: devices come and go, the store is written.  *)
(***************************************************************************)
InsertAt(seq, p, x) == SubSeq(seq, 1, p - 1) \o <<x>> \o SubSeq(seq, p, Len(seq))
RemoveAt(seq, p)    == SubSeq(seq, 1, p - 1) \o SubSeq(seq, p + 1, Len(seq))
Range(seq) == {seq[i] : i \in 1..Len(seq)}

\* between calls, and between the two enumerations of _print_to_usb
HotplugPoint == pc \in {"idle", "usb_lookup"}

UsbPlug ==
    /\ HotplugPoint
    /\ Len(usbBus) < MaxUsb
    /\ \E n \in UsbNames \ Range(usbBus), p \in 1..(Len(usbBus) + 1) :
         usbBus' = InsertAt(usbBus, p, n)
    /\ UNCHANGED <<fmtVars, storeVars, histVars, callVars, pairVars>>

UsbUnplug ==
    /\ HotplugPoint
    /\ \E p \in 1..Len(usbBus) : usbBus' = RemoveAt(usbBus, p)
    /\ UNCHANGED <<fmtVars, storeVars, histVars, callVars, pairVars>>

\* PrinterManager.save_printer_config / save_printer_type, between calls (the
\* history of the saves is kept in StoreSpec only)
SavePrinterConfig ==
    /\ pc = "idle"
    /\ \E v \in IdChoices, outcome \in SaveOutcomes :
         deviceDoc' = save_printer_config(deviceDoc, v, outcome)
    /\ UNCHANGED <<fmtVars, typeDoc, histVars, usbBus, callVars, pairVars>>

SavePrinterType ==
    /\ pc = "idle"
    /\ \E k \in TypeChoices, outcome \in SaveOutcomes :
         typeDoc' = save_printer_type(typeDoc, k, outcome)
    /\ UNCHANGED <<fmtVars, deviceDoc, histVars, usbBus, callVars, pairVars>>

(***************************************************************************)
(* cli_interface: the config command.                                      *)
(***************************************************************************)
\* the values of --device: not given, an index, a description as `list`
\* prints it, an index that is never listed, a port path
ArgDevices ==
    {JNull, JStr(Str("1")), JStr(Str("2")), JStr(Str("0")),
     JStr(Description(1, "printerA")), JStr(PortA)}

\* s.split('.')[0]: the text before the first dot
RECURSIVE SplitDotHead(_)
SplitDotHead(s) ==
    IF s = <<>> \/ Head(s) = 46 THEN <<>> ELSE <<Head(s)>> \o SplitDotHead(Tail(s))

\* int(s) of a string of decimal digits; anything else here raises ValueError
IsInt(s) == s # <<>> /\ \A i \in 1..Len(s) : s[i] \in 48..57
RECURSIVE IntOf(_)
IntOf(s) == IF s = <<>> THEN 0 ELSE 10 * IntOf(SubSeq(s, 1, Len(s) - 1)) + (s[Len(s)] - 48)

\* the two saves of a selection, one after the other, the return value of
\* neither looked at
SaveSelection(selected, kind, outcome1, outcome2) ==
    /\ deviceDoc' = save_printer_config(deviceDoc, JStr(selected), outcome1)
    /\ typeDoc' = save_printer_type(typeDoc, JStr(kind), outcome2)

\* config --type usb [--device D]
CliConfigUsb ==
    /\ pc = "idle"
    /\ \E arg \in ArgDevices, USB_AVAILABLE \in BOOLEAN, upto \in 0..Len(usbBus),
          outcome1 \in SaveOutcomes, outcome2 \in SaveOutcomes :
         LET devs  == IF USB_AVAILABLE THEN get_usb_devices(usbBus, upto) ELSE <<>>
             head  == SplitDotHead(arg.s)
             index == IntOf(head) - 1
         IN  IF /\ devs # <<>>
                /\ ~Falsy(arg)
                /\ IsInt(head)
                /\ 0 <= index /\ index < Len(devs)
             THEN SaveSelection(devs[index + 1].description, USB, outcome1, outcome2)
             ELSE UNCHANGED <<deviceDoc, typeDoc>>
    /\ UNCHANGED <<fmtVars, histVars, usbBus, callVars, pairVars>>

\* config --type serial [--device D]
CliConfigSerial ==
    /\ pc = "idle"
    /\ \E arg \in ArgDevices, SERIAL_AVAILABLE \in BOOLEAN,
          outcome1 \in SaveOutcomes, outcome2 \in SaveOutcomes :
         LET ports == IF SERIAL_AVAILABLE THEN SerialPorts ELSE {}
         IN  IF ports # {} /\ ~Falsy(arg) /\ arg.s \in ports
             THEN SaveSelection(arg.s, SERIAL, outcome1, outcome2)
             ELSE UNCHANGED <<deviceDoc, typeDoc>>
    /\ UNCHANGED <<fmtVars, histVars, usbBus, callVars, pairVars>>

(***************************************************************************)
(* The store with its history, for the round trip.                         *)
(***************************************************************************)
NoStoreOp == [op |-> "none", ok |-> FALSE]

HistInit == savedConfig = JNull /\ savedType = JStr(USB) /\ storeOp = NoStoreOp

StoreSaveConfig ==
    \E v \in IdChoices, outcome \in SaveOutcomes :
        /\ deviceDoc' = save_printer_config(deviceDoc, v, outcome)
        /\ savedConfig' = IF SaveReturns(outcome) THEN v ELSE savedConfig
        /\ storeOp' = [op |-> "save_printer_config", ok |-> SaveReturns(outcome)]
        /\ UNCHANGED <<fmtVars, typeDoc, savedType, usbBus, callVars, pairVars>>

StoreSaveType ==
    \E k \in TypeChoices, outcome \in SaveOutcomes :
        /\ typeDoc' = save_printer_type(typeDoc, k, outcome)
        /\ savedType' = IF SaveReturns(outcome) THEN k ELSE savedType
        /\ storeOp' = [op |-> "save_printer_type", ok |-> SaveReturns(outcome)]
        /\ UNCHANGED <<fmtVars, deviceDoc, savedConfig, usbBus, callVars, pairVars>>

(***************************************************************************)
(* One receipt down both transports: _print_to_serial from its open port   *)
(* and _print_to_usb from its OUT endpoint, one call after the other, with *)
(* the same arguments against a transport that behaves the same way.       *)
(***************************************************************************)
\* the most write calls a receipt can make
MaxWrites == MaxLines + FeedLines + 3

NoJob == [on |-> FALSE, lines |-> <<>>, logoUrl |-> "none", isBuzzer |-> FALSE,
          failAt |-> 0, releaseOk |-> TRUE]

IdleRun == [pc |-> "idle", idx |-> 1, feeds |-> 0, logo |-> "none", writes |-> <<>>,
            handle |-> "none", result |-> "none"]

PairInit == job = NoJob /\ serialRun = IdleRun /\ usbRun = IdleRun

baseVars == <<fmtVars, storeVars, histVars, usbBus, callVars>>

\* the transport of a job: its k-th call of write raises when k = job.failAt
WriteOk(run) == Len(run.writes) + 1 # job.failAt

\* the run after one more call of write
Written(run, data) ==
    [run EXCEPT !.writes = Append(@, [data |-> data, ok |-> WriteOk(run)])]

\* the except clause: the call returns False from where it is
Raised(run) == [run EXCEPT !.pc = "returned", !.result = "False"]

\* one write of a control sequence: on to `next`, or into the except clause
AfterWrite(run, data, next) ==
    IF WriteOk(run) THEN [Written(run, data) EXCEPT !.pc = next]
                    ELSE Raised(Written(run, data))

\* the first call: _print_to_serial with the port open
PairStart ==
    /\ ~job.on
    /\ \E ls \in LineLists, logo \in {"none", "url"}, buz \in BOOLEAN,
          k \in 0..MaxWrites, rel \in BOOLEAN :
         job' = [on |-> TRUE, lines |-> ls, logoUrl |-> logo, isBuzzer |-> buz,
                 failAt |-> k, releaseOk |-> rel]
    /\ serialRun' = [IdleRun EXCEPT !.pc = "logo", !.handle = "open"]
    /\ UNCHANGED <<usbRun, baseVars>>

\* the second call: _print_to_usb with an OUT endpoint found
PairSecond ==
    /\ serialRun.pc = "returned" /\ usbRun.pc = "idle"
    /\ usbRun' = [IdleRun EXCEPT !.pc = "logo", !.handle = "open"]
    /\ UNCHANGED <<job, serialRun, baseVars>>

\* both calls have returned
PairDone ==
    /\ serialRun.pc = "returned" /\ usbRun.pc = "returned"
    /\ job' = NoJob /\ serialRun' = IdleRun /\ usbRun' = IdleRun
    /\ UNCHANGED baseVars

\* _print_to_serial: if logo_url: self._print_image_from_url(logo_url, ser)
SerialPathLogo ==
    /\ serialRun.pc = "logo"
    /\ \E o \in LogoOutcomes :
         serialRun' =
           [serialRun EXCEPT
              !.logo = IF job.logoUrl = "none" THEN "skipped"
                       ELSE IF print_image_from_url(o) THEN "True" ELSE "False",
              !.pc = IF job.lines = <<>> THEN "feed" ELSE "lines"]
    /\ UNCHANGED <<job, usbRun, baseVars>>

\* for line in text_lines: ser.write(f"{line}\n".encode('utf-8'))
SerialPathLines ==
    /\ serialRun.pc = "lines"
    /\ LET text == job.lines[serialRun.idx] \o <<10>>
       IN  serialRun' =
             IF ~Encodable(text) THEN Raised(serialRun)
             ELSE IF WriteOk(serialRun)
             THEN [Written(serialRun, Encode(text)) EXCEPT
                     !.idx = @ + 1,
                     !.pc = IF serialRun.idx = Len(job.lines) THEN "feed" ELSE "lines"]
             ELSE Raised(Written(serialRun, Encode(text)))
    /\ UNCHANGED <<job, usbRun, baseVars>>

\* for _ in range(5): ser.write(line_feed)
SerialPathFeed ==
    /\ serialRun.pc = "feed"
    /\ serialRun' =
         IF WriteOk(serialRun)
         THEN [Written(serialRun, COMMANDS.line_feed) EXCEPT
                 !.feeds = @ + 1,
                 !.pc = IF serialRun.feeds + 1 = FeedLines THEN "cut" ELSE "feed"]
         ELSE Raised(Written(serialRun, COMMANDS.line_feed))
    /\ UNCHANGED <<job, usbRun, baseVars>>

\* ser.write(cut)
SerialPathCut ==
    /\ serialRun.pc = "cut"
    /\ serialRun' = AfterWrite(serialRun, COMMANDS.cut, "cut_feed")
    /\ UNCHANGED <<job, usbRun, baseVars>>

\* ser.write(line_feed)
SerialPathCutFeed ==
    /\ serialRun.pc = "cut_feed"
    /\ serialRun' = AfterWrite(serialRun, COMMANDS.line_feed,
                               IF job.isBuzzer THEN "buzzer" ELSE "close")
    /\ UNCHANGED <<job, usbRun, baseVars>>

\* if is_buzzer: ser.write(buzzer)
SerialPathBuzzer ==
    /\ serialRun.pc = "buzzer"
    /\ serialRun' = AfterWrite(serialRun, COMMANDS.buzzer, "close")
    /\ UNCHANGED <<job, usbRun, baseVars>>

\* ser.close(); return True
SerialPathClose ==
    /\ serialRun.pc = "close"
    /\ serialRun' =
         IF job.releaseOk
         THEN [serialRun EXCEPT !.handle = "released", !.result = "True",
                                !.pc = "returned"]
         ELSE Raised([serialRun EXCEPT !.handle = "release_failed"])
    /\ UNCHANGED <<job, usbRun, baseVars>>

\* _print_to_usb: if logo_url: self._print_image_from_url(logo_url, out_endpoint)
UsbPathLogo ==
    /\ usbRun.pc = "logo"
    /\ \E o \in LogoOutcomes :
         usbRun' =
           [usbRun EXCEPT
              !.logo = IF job.logoUrl = "none" THEN "skipped"
                       ELSE IF print_image_from_url(o) THEN "True" ELSE "False",
              !.pc = IF job.lines = <<>> THEN "feed" ELSE "lines"]
    /\ UNCHANGED <<job, serialRun, baseVars>>

\* for line in text_lines: out_endpoint.write(f"{line}\n".encode('utf-8'))
UsbPathLines ==
    /\ usbRun.pc = "lines"
    /\ LET text == job.lines[usbRun.idx] \o <<10>>
       IN  usbRun' =
             IF ~Encodable(text) THEN Raised(usbRun)
             ELSE IF WriteOk(usbRun)
             THEN [Written(usbRun, Encode(text)) EXCEPT
                     !.idx = @ + 1,
                     !.pc = IF usbRun.idx = Len(job.lines) THEN "feed" ELSE "lines"]
             ELSE Raised(Written(usbRun, Encode(text)))
    /\ UNCHANGED <<job, serialRun, baseVars>>

\* for _ in range(5): out_endpoint.write(line_feed)
UsbPathFeed ==
    /\ usbRun.pc = "feed"
    /\ usbRun' =
         IF WriteOk(usbRun)
         THEN [Written(usbRun, COMMANDS.line_feed) EXCEPT
                 !.feeds = @ + 1,
                 !.pc = IF usbRun.feeds + 1 = FeedLines THEN "cut" ELSE "feed"]
         ELSE Raised(Written(usbRun, COMMANDS.line_feed))
    /\ UNCHANGED <<job, serialRun, baseVars>>

\* out_endpoint.write(cut)
UsbPathCut ==
    /\ usbRun.pc = "cut"
    /\ usbRun' = AfterWrite(usbRun, COMMANDS.cut, "cut_feed")
    /\ UNCHANGED <<job, serialRun, baseVars>>

\* out_endpoint.write(line_feed)
UsbPathCutFeed ==
    /\ usbRun.pc = "cut_feed"
    /\ usbRun' = AfterWrite(usbRun, COMMANDS.line_feed,
                            IF job.isBuzzer THEN "buzzer" ELSE "dispose")
    /\ UNCHANGED <<job, serialRun, baseVars>>

\* variant: the USB path leaves the buzzer out
UsbPathBuzzer_silent ==
    /\ usbRun.pc = "buzzer"
    /\ usbRun' = [usbRun EXCEPT !.pc = "dispose"]
    /\ UNCHANGED <<job, serialRun, baseVars>>
\* if is_buzzer: out_endpoint.write(buzzer)
UsbPathBuzzer ==
    /\ usbRun.pc = "buzzer"
    /\ usbRun' = AfterWrite(usbRun, COMMANDS.buzzer, "dispose")
    /\ UNCHANGED <<job, serialRun, baseVars>>

\* usb.util.dispose_resources(device); return True
UsbPathDispose ==
    /\ usbRun.pc = "dispose"
    /\ usbRun' =
         IF job.releaseOk
         THEN [usbRun EXCEPT !.handle = "released", !.result = "True",
                             !.pc = "returned"]
         ELSE Raised([usbRun EXCEPT !.handle = "release_failed"])
    /\ UNCHANGED <<job, serialRun, baseVars>>

(***************************************************************************)
(* Specifications.                                                         *)
(***************************************************************************)
Init ==
    /\ FmtInit /\ HistInit /\ CallInit /\ PairInit
    /\ deviceDoc = Absent /\ typeDoc = Absent
    /\ usbBus = <<>>

\* the printer: the store, the host and the print calls
Next ==
    \/ SavePrinterConfig
    \/ SavePrinterType
    \/ UsbPlug
    \/ UsbUnplug
    \/ PrintReceipt
    \/ PrintTestReceipt
    \/ SerialOpen
    \/ UsbResolve
    \/ UsbLookup
    \/ UsbConfigure
    \/ PrintLogo
    \/ WriteLine
    \/ WriteFeed
    \/ WriteCut
    \/ WriteCutFeed
    \/ WriteBuzzer
    \/ Release
    \/ CallerContinues

Spec == Init /\ [][Next]_vars

\* the formatter: pure functions applied to drawn inputs
FmtNext ==
    \/ CallCenter
    \/ CallLeftAlign
    \/ CallRightAlign
    \/ CallFormatReceiptItem
    \/ FmtReturn
FmtSpec == Init /\ [][FmtNext]_vars

\* the Config Store alone, with the history of its saves
StoreNext == StoreSaveConfig \/ StoreSaveType
StoreSpec == Init /\ [][StoreNext]_vars

\* the two transports side by side
PairNext ==
    \/ PairStart
    \/ SerialPathLogo
    \/ SerialPathLines
    \/ SerialPathFeed
    \/ SerialPathCut
    \/ SerialPathCutFeed
    \/ SerialPathBuzzer
    \/ SerialPathClose
    \/ PairSecond
    \/ UsbPathLogo
    \/ UsbPathLines
    \/ UsbPathFeed
    \/ UsbPathCut
    \/ UsbPathCutFeed
    \/ UsbPathBuzzer
    \/ UsbPathDispose
    \/ PairDone
PairSpec == Init /\ [][PairNext]_vars

\* the config command, the host and the print calls
CliNext ==
    \/ CliConfigUsb
    \/ CliConfigSerial
    \/ UsbPlug
    \/ UsbUnplug
    \/ PrintReceipt
    \/ PrintTestReceipt
    \/ SerialOpen
    \/ UsbResolve
    \/ UsbLookup
    \/ UsbConfigure
    \/ PrintLogo
    \/ WriteLine
    \/ WriteFeed
    \/ WriteCut
    \/ WriteCutFeed
    \/ WriteBuzzer
    \/ Release
    \/ CallerContinues
CliSpec == Init /\ [][CliNext]_vars

(***************************************************************************)
(* Properties of the formatter (FmtSpec).                                  *)
(***************************************************************************)
AllSpaces(s, from, to) == \A i \in from..to : s[i] = SPACE

\* `out` is `text` with k spaces before it and only spaces after it
PaddedAt(out, text, k) ==
    /\ k >= 0 /\ k + Len(text) <= Len(out)
    /\ SubSeq(out, k + 1, k + Len(text)) = text
    /\ AllSpaces(out, 1, k)
    /\ AllSpaces(out, k + Len(text) + 1, Len(out))

\* C9: center, left_align and right_align return the text unchanged when
\* len(text) >= width; otherwise a string of exactly width characters holding
\* the text in one piece with nothing but spaces around it: after it only, for
\* left_align, before it only, for right_align.
C9_AlignPads ==
    fmtCall.op \in {"center", "left_align", "right_align"} =>
        LET text == fmtCall.text
            w    == fmtCall.width
        IN  IF Len(text) >= w
            THEN fmtOut = text
            ELSE /\ Len(fmtOut) = w
                 /\ \E k \in 0..(w - Len(text)) : PaddedAt(fmtOut, text, k)
                 /\ fmtCall.op = "left_align"  => PaddedAt(fmtOut, text, 0)
                 /\ fmtCall.op = "right_align" => PaddedAt(fmtOut, text, w - Len(text))

\* center("a", 4) is " a  ": four characters, the odd space on the right
C9_Witness ==
    /\ fmtCall.op = "center" /\ fmtCall.text = Str("a") /\ fmtCall.width = 4
    /\ fmtOut = <<SPACE, 97, SPACE, SPACE>>

\* the four fields of an item line: name, str(qty), str(price), str(qty * price)
ItemFields ==
    << fmtCall.text, IntStr(fmtCall.qty), FloatStr(fmtCall.priceQ),
       FloatStr(fmtCall.qty * fmtCall.priceQ) >>

\* C10 as stated: the result always has exactly name_width + qty_width +
\* price_width + total_width characters.
C10_ExactWidth ==
    fmtCall.op = "format_receipt_item" =>
        Len(fmtOut) = fmtCall.w[1] + fmtCall.w[2] + fmtCall.w[3] + fmtCall.w[4]

\* C10, amended: the result is the four fields concatenated with no
\* separator, each padded with spaces to at least its width and never cut:
\* name, quantity and price padded on the right, the extended price
\* qty * price padded on the left. Its length is the sum over the fields of
\* max(width, len(field)), which is the sum of the widths when every field fits.
C10_FieldsPadded ==
    fmtCall.op = "format_receipt_item" =>
        LET f    == ItemFields
            w    == fmtCall.w
            n(i) == Max(w[i], Len(f[i]))
            part(i, from) == SubSeq(fmtOut, from + 1, from + n(i))
        IN  /\ Len(fmtOut) = n(1) + n(2) + n(3) + n(4)
            /\ PaddedAt(part(1, 0), f[1], 0)
            /\ PaddedAt(part(2, n(1)), f[2], 0)
            /\ PaddedAt(part(3, n(1) + n(2)), f[3], 0)
            /\ PaddedAt(part(4, n(1) + n(2) + n(3)), f[4], n(4) - Len(f[4]))
            /\ (\A i \in 1..4 : Len(f[i]) <= w[i])
                 => Len(fmtOut) = w[1] + w[2] + w[3] + w[4]

\* format_receipt_item("Widget", 3, 2.50) with the default widths: 36
\* characters, "Widget" at the left of the first 15, "7.5" at the right of the
\* last 10
C10_Witness ==
    /\ fmtCall.op = "format_receipt_item"
    /\ fmtCall.text = Str("Widget") /\ fmtCall.qty = 3 /\ fmtCall.priceQ = 10
    /\ fmtCall.w = DefaultWidths
    /\ Len(fmtOut) = 36
    /\ SubSeq(fmtOut, 1, 15) = Str("Widget") \o Spaces(9)
    /\ SubSeq(fmtOut, 27, 36) = Spaces(7) \o Str("7.5")

(***************************************************************************)
(* Properties of a print call (Spec).                                      *)
(***************************************************************************)
Payloads(ws) == [j \in 1..Len(ws) |-> ws[j].data]
AllOk(ws)    == \A j \in 1..Len(ws) : ws[j].ok

\* the writes of a complete receipt: each line with its newline, five
\* line-feeds, the cut, one line-feed, and the buzzer when asked for
ExpectedWrites(ls, buz) ==
    [i \in 1..Len(ls) |-> Encode(ls[i] \o <<10>>)]
      \o [i \in 1..5 |-> COMMANDS.line_feed]
      \o <<COMMANDS.cut, COMMANDS.line_feed>>
      \o (IF buz THEN <<COMMANDS.buzzer>> ELSE <<>>)

IsPrefix(a, b) == Len(a) <= Len(b) /\ SubSeq(b, 1, Len(a)) = a

\* C1 as stated: no call returns with the transport it opened still open.
C1_ReleasedOnReturn ==
    pc = "returned" => handle # "open"

\* C2: a successful print_receipt has written exactly the lines in order, each
\* followed by a newline, then five line-feeds, the cut, one line-feed and the
\* buzzer iff asked for, one write call each, all to the one transport; the
\* transport is released only after the last of them, and success is returned
\* only after the release.
C2_SuccessSequence ==
    /\ result = "True" => handle = "released"
    /\ handle = "released" =>
         /\ Payloads(writes) = ExpectedWrites(lines, isBuzzer)
         /\ AllOk(writes)
         /\ \A j \in 1..Len(writes) : writes[j].to = device

\* two different lines, no buzzer, printed over USB
C2_Witness ==
    /\ result = "True" /\ entry = "print_receipt"
    /\ Len(lines) = 2 /\ lines[1] # lines[2] /\ ~isBuzzer
    /\ device \in UsbNames
    /\ Len(writes) = 9

\* the device document holds no identifier
NoIdentifier(doc) ==
    \/ doc.st \in {"absent", "corrupt"}
    \/ doc.key # "printer"
    \/ doc.val = JNull
    \/ doc.val = JStr(<<>>)

\* C3: with no identifier persisted, a print call returns False at once: no
\* transport is opened and nothing is written, whatever the transport kind,
\* the lines, the logo URL and the buzzer flag.
C3_NotConfigured ==
    (pc # "idle" /\ NoIdentifier(deviceDoc)) =>
        /\ pc = "returned" /\ result = "False"
        /\ handle = "none" /\ device = "none" /\ writes = <<>>

\* an unreadable device document, kind serial, lines and a logo to print
C3_Witness ==
    /\ pc = "returned" /\ result = "False" /\ entry = "print_receipt"
    /\ deviceDoc = Corrupt
    /\ typeDoc = Json("type_printer", JStr(SERIAL))
    /\ lines # <<>> /\ logoUrl = "url" /\ isBuzzer
    /\ writes = <<>>

\* C4 as stated: every write of a USB print goes to the device whose
\* description is the persisted identifier, never to another device.
C4_OnlyMatchingDevice ==
    \A j \in 1..Len(writes) :
        (writes[j].ok /\ writes[j].to \in UsbNames) =>
            \E i \in 1..MaxUsb : Description(i, writes[j].to) = printerConfig.s

AllEncodable(ls) == \A i \in 1..Len(ls) : Encodable(ls[i])

\* C5: a logo that cannot be fetched or decoded changes nothing else: no logo
\* bytes are written, the writes are those of the receipt without a logo in
\* the same order, and unless the transport itself fails (a write, an
\* unencodable line, the release) the call writes every line and the whole
\* trailer and returns True.
C5_LogoNonFatal ==
    logoOutcome = "False" =>
        /\ IsPrefix(Payloads(writes), ExpectedWrites(lines, isBuzzer))
        /\ (pc = "returned" /\ AllOk(writes) /\ AllEncodable(lines)
              /\ handle # "release_failed")
             => /\ result = "True"
                /\ Payloads(writes) = ExpectedWrites(lines, isBuzzer)

\* the logo failed, two lines and the buzzer were asked for, the call succeeded
C5_Witness ==
    /\ logoUrl = "url" /\ logoOutcome = "False"
    /\ result = "True" /\ Len(lines) = 2 /\ isBuzzer
    /\ Len(writes) = 10

\* C6: the write attempts of a call are a prefix of the receipt's writes, each
\* attempted once and in order; a failed attempt is the last one and ends the
\* call with the result False; a call whose transport was never opened has
\* written nothing and returns False; a returned call has a result, True only
\* when no attempt failed.
C6_NoRetry ==
    /\ IsPrefix(Payloads(writes), ExpectedWrites(lines, isBuzzer))
    /\ \A j \in 1..(Len(writes) - 1) : writes[j].ok
    /\ ~AllOk(writes) => (pc = "returned" /\ result = "False")
    /\ pc = "returned" => result \in {"True", "False"}
    /\ (pc = "returned" /\ handle = "none") => (result = "False" /\ writes = <<>>)

\* two lines written, then the first line-feed of the margin failed
C6_Witness ==
    /\ pc = "returned" /\ result = "False"
    /\ Len(lines) = 2 /\ Len(writes) = 3
    /\ writes[1].ok /\ writes[2].ok /\ ~writes[3].ok

Contains(s, sub) ==
    \E k \in 0..(Len(s) - Len(sub)) : SubSeq(s, k + 1, k + Len(sub)) = sub

LastWrites(n) == SubSeq(Payloads(writes), Len(writes) - n + 1, Len(writes))

\* what the canned receipt has to show
TestHeaderText  == Str("Your Company Name")
TestItem1Text   == Str("Item 1         2   10.0         20.0")
TestItem2Text   == Str("Item 2         1   20.0         20.0")
TestItem3Text   == Str("Item 3         3   5.0          15.0")
TestTotalText   == Str("Total         55.0")
TestFooterText  == Str("Thank you for your business!")

\* C8: print_test_receipt with no device configured returns False with no
\* write; otherwise it prints, with the buzzer on, a header, the items 2 x 10,
\* 1 x 20 and 3 x 5, a total line showing 55 and a footer, and on success
\* over serial the last writes are five line-feeds, the cut, one line-feed and
\* the buzzer.
C8_TestReceipt ==
    entry = "print_test_receipt" =>
        IF NoIdentifier(deviceDoc)
        THEN pc = "returned" /\ result = "False" /\ writes = <<>> /\ handle = "none"
        ELSE /\ isBuzzer /\ logoUrl = "none"
             /\ Len(lines) = 16
             /\ Contains(lines[2], TestHeaderText)
             /\ Contains(lines[9],  TestItem1Text)
             /\ Contains(lines[10], TestItem2Text)
             /\ Contains(lines[11], TestItem3Text)
             /\ Contains(lines[13], TestTotalText)
             /\ Contains(lines[15], TestFooterText)
             /\ (result = "True" /\ device = "serial") =>
                  LastWrites(8) = << <<10>>, <<10>>, <<10>>, <<10>>, <<10>>,
                                     <<29, 86, 0>>, <<10>>, <<27, 66, 5, 7>> >>

\* the test receipt printed over the serial port
C8_Witness ==
    /\ entry = "print_test_receipt" /\ result = "True" /\ device = "serial"
    /\ printerConfig = JStr(PortA)
    /\ Len(writes) = 24

(***************************************************************************)
(* Properties of the two transports side by side (PairSpec).               *)
(***************************************************************************)
\* the number of write calls before the transport is released, or -1
ReleasedAfter(run) == IF run.handle = "released" THEN Len(run.writes) ELSE 0 - 1

\* C11: for the same lines, logo URL and buzzer flag, against a transport
\* whose write calls succeed and fail in the same pattern (and whose release
\* behaves the same way), _print_to_serial and _print_to_usb make the same
\* write calls with the same payloads in the same order, release the
\* transport after the same write (or both never), and return the same result.
C11_TransportsEquivalent ==
    (serialRun.pc = "returned" /\ usbRun.pc = "returned") =>
        /\ serialRun.writes = usbRun.writes
        /\ ReleasedAfter(serialRun) = ReleasedAfter(usbRun)
        /\ serialRun.handle = usbRun.handle
        /\ serialRun.result = usbRun.result

\* two lines and the buzzer asked for, the cut raises on both transports:
\* eight write calls each, neither released, both False
C11_Witness ==
    /\ serialRun.pc = "returned" /\ usbRun.pc = "returned"
    /\ Len(job.lines) = 2 /\ job.isBuzzer /\ job.failAt = 8
    /\ Len(usbRun.writes) = 8 /\ ~usbRun.writes[8].ok
    /\ usbRun.writes[8].data = COMMANDS.cut
    /\ usbRun.handle = "open" /\ usbRun.result = "False"

(***************************************************************************)
(* Properties of the config command (CliSpec).                             *)
(***************************************************************************)
\* the identifier is a description get_usb_devices can compute
IsUsbDescription(s) == \E i \in 1..MaxUsb, n \in UsbNames : s = Description(i, n)

\* C12 as stated: whatever config commands ran and whichever of their saves
\* failed, the persisted kind is the kind the persisted identifier was
\* selected for: a serial port path is never persisted with the kind usb, a
\* USB description never with the kind serial, and no print call takes an
\* identifier to the transport of the other kind.
C12_KindMatchesIdentifier ==
    LET ident == load_printer_config(deviceDoc)
        kind  == load_printer_type(typeDoc)
    IN  /\ ~Falsy(ident) =>
              /\ ident.s \in SerialPorts => kind = JStr(SERIAL)
              /\ IsUsbDescription(ident.s) => kind = JStr(USB)
        /\ pc = "usb_resolve" => IsUsbDescription(printerConfig.s)
        /\ pc = "serial_open" => printerConfig.s \in SerialPorts

(***************************************************************************)
(* Properties of the Config Store (StoreSpec).                             *)
(***************************************************************************)
\* C7 as stated: load_printer_config returns the identifier of the most
\* recent successful save_printer_config (None if none), load_printer_type
\* the kind of the most recent successful save_printer_type ("usb" if none or
\* the document is unreadable).
C7_RoundTrip ==
    /\ load_printer_config(deviceDoc) = savedConfig
    /\ load_printer_type(typeDoc) =
         IF typeDoc.st = "corrupt" THEN JStr(USB) ELSE savedType

====
